---------------------------- MODULE Spec2Model ----------------------------
(***************************************************************************)
(* The NonLTE production-rate notebook (src/unnamed/part_001) as a state    *)
(* machine: one kernel namespace `nb`, one action per statement of the      *)
(* production-rate cell (cell 10), plus the set-up cells 7 and 8.  Library  *)
(* calls (Ephem.from_horizons, beta_factor, ...) are external: a call       *)
(* either returns a value, represented by the term of its arguments, or     *)
(* raises.  The JPLSpec and Orbit notebooks (src/unnamed/part_000) and the  *)
(* regular expressions of the molecule identifiers have their own          *)
(* specifications over the same variables.                                 *)
(***************************************************************************)
EXTENDS Integers, Sequences, FiniteSets, TLC

VARIABLES nb, nb2

vars == <<nb, nb2>>

(***************************************************************************)
(* Bounds of the model.                                                     *)
(***************************************************************************)
\* how many rows of the recorded CO table an input table may differ in
MaxChanged == 1

(***************************************************************************)
(* Values.  A value returned by a library call is the term                  *)
(* [op, v, args]: the call's name and the values it was given.              *)
(***************************************************************************)
Lit(name, n) == [op |-> name, v |-> n, args |-> <<>>]

App(f, xs) == [op |-> f, v |-> 0, args |-> xs]

None == Lit("None", 0)

Absent == Lit("<no column>", 0)

(***************************************************************************)
(* Cell 5: co = Table.read('data/CO.csv').  The recorded table has five    *)
(* rows; Time is the U_T epoch (yyyymmdd.dd without the separators), T_B    *)
(* the integrated brightness temperature in 0.01 K km/s.                    *)
(***************************************************************************)
RecordedCO ==
    << [Time |-> 2017122221, T_B |-> 26],
       [Time |-> 2017122309, T_B |-> 28],
       [Time |-> 2017123014, T_B |-> 26],
       [Time |-> 2017123113, T_B |-> 27],
       [Time |-> 2018011603, T_B |-> 27] >>

\* another observation that could stand in row j of the file
AltRows(j) ==
    { [Time |-> t, T_B |-> f] :
        t \in {RecordedCO[j].Time, RecordedCO[j].Time + 1},
        f \in {RecordedCO[j].T_B, RecordedCO[j].T_B + 1} } \ {RecordedCO[j]}

\* one more row of each table replaced by another observation
ChangeOneRow(tables) ==
    tables \cup UNION { UNION { { [t EXCEPT ![j] = r] : r \in AltRows(j) }
                                : j \in 1..Len(t) } : t \in tables }

RECURSIVE ChangedUpTo(_)
\* the tables that differ from the recorded one in at most n rows
ChangedUpTo(n) ==
    IF n = 0 THEN {RecordedCO} ELSE ChangeOneRow(ChangedUpTo(n - 1))

CoTables == ChangedUpTo(MaxChanged)

(***************************************************************************)
(* sbpy.data.Phys: a table of named columns, here a function from the      *)
(* defined column names to the column's value.                              *)
(***************************************************************************)
NoColumns == [c \in {} |-> None]

Columns(md) == DOMAIN md

\* md[name] = val: defines the column when it is new, replaces its value otherwise
Phys_setitem_keep(md, name, val) ==
    IF name \in DOMAIN md THEN md
    ELSE [c \in DOMAIN md \cup {name} |-> IF c = name THEN val ELSE md[c]]

Phys_setitem(md, name, val) ==
    [c \in DOMAIN md \cup {name} |-> IF c = name THEN val ELSE md[c]]

\* md.apply(val, name=name): adds a new column; a name already there is refused
Phys_apply_ok_always(md, name) == TRUE

Phys_apply_ok(md, name) == name \notin DOMAIN md

Phys_apply(md, name, val) ==
    [c \in DOMAIN md \cup {name} |-> IF c = name THEN val ELSE md[c]]

\* every column name the notebook uses, in a fixed order
ColumnOrder ==
    << "t_freq", "elo_j", "degfr", "partfn",
       "Integrated line intensity at desired temp", "eincoeff",
       "beta", "cdensity", "total_number" >>

\* what a library call can see of mol_data: the columns in `cols`
PhysView(md, cols) ==
    App("Phys", [n \in 1..Len(ColumnOrder) |->
                    IF ColumnOrder[n] \in cols \cap DOMAIN md
                    THEN md[ColumnOrder[n]] ELSE Absent])

(***************************************************************************)
(* Cell 6 and cell 9: the parameters fixed before the loop.                 *)
(***************************************************************************)
target == Lit("C/2016 R2", 0)

aper == Lit("10 m", 0)

b == Lit("0.74", 0)

coma == App("Haser", << Lit("Q_estimate", 0), Lit("vgas", 0), Lit("parent", 0) >>)

(***************************************************************************)
(* Quantities.  A value is the pair <<whole, frac>> of its decimal          *)
(* expansion in its unit: GHz values carry 7 decimals, MHz values 4.        *)
(***************************************************************************)
GHz(w, f) == [value |-> <<w, f>>, unit |-> "GHz"]

MHz(w, f) == [value |-> <<w, f>>, unit |-> "MHz"]

\* Quantity.to(unit)
to(q, unit) ==
    IF q.unit = unit THEN q
    ELSE IF unit = "MHz"
         THEN MHz(q.value[1] * 1000 + q.value[2] \div 10000, q.value[2] % 10000)
         ELSE GHz(q.value[1] \div 1000, (q.value[1] % 1000) * 10000 + q.value[2])

\* x <= y, x + y and |x - y| of two MHz values
LessEq(x, y) == x[1] < y[1] \/ (x[1] = y[1] /\ x[2] <= y[2])

Plus(x, y) == << x[1] + y[1] + (x[2] + y[2]) \div 10000, (x[2] + y[2]) % 10000 >>

AbsDiff(x, y) ==
    LET hi == IF LessEq(x, y) THEN y ELSE x
        lo == IF LessEq(x, y) THEN x ELSE y
    IN  IF hi[2] >= lo[2] THEN << hi[1] - lo[1], hi[2] - lo[2] >>
        ELSE << hi[1] - lo[1] - 1, hi[2] + 10000 - lo[2] >>

FreqTerm(q) == [op |-> q.unit, v |-> q.value[1], args |-> << Lit("frac", q.value[2]) >>]

(***************************************************************************)
(* The JPL catalog lines of CO (FREQ in MHz, ELO in 0.0001 / cm) as the    *)
(* catalog returns them, and Phys.from_jplspec, which the notebook          *)
(* describes as picking the closest transition frequency within a range    *)
(* of 1 GHz.                                                                *)
(***************************************************************************)
CO_lines ==
    << [FREQ |-> <<115271, 2018>>, ELO |-> 0,      DR |-> 2, GUP |-> 3,  TAG |-> -28001],
       [FREQ |-> <<230538, 0>>,    ELO |-> 38450,  DR |-> 2, GUP |-> 5,  TAG |-> -28001],
       [FREQ |-> <<345795, 9899>>, ELO |-> 115350, DR |-> 2, GUP |-> 7,  TAG |-> -28001],
       [FREQ |-> <<461040, 7682>>, ELO |-> 230695, DR |-> 2, GUP |-> 9,  TAG |-> -28001],
       [FREQ |-> <<576267, 9305>>, ELO |-> 384481, DR |-> 2, GUP |-> 11, TAG |-> -28001],
       [FREQ |-> <<691473, 763>>,  ELO |-> 576704, DR |-> 2, GUP |-> 13, TAG |-> -28001],
       [FREQ |-> <<806651, 8060>>, ELO |-> 807354, DR |-> 2, GUP |-> 15, TAG |-> -28001] >>

\* the width of the search window on either side of the requested frequency
jplspec_range_MHz == MHz(1, 0)

jplspec_range == GHz(1, 0)

\* the lines of `lines` with min_frequency <= FREQ <= max_frequency
query_lines_from(min_frequency, max_frequency, lines) ==
    LET inside(l) == LessEq(to(min_frequency, "MHz").value, l.FREQ)
    IN  SelectSeq(lines, inside)

query_lines(min_frequency, max_frequency, lines) ==
    LET inside(l) == /\ LessEq(to(min_frequency, "MHz").value, l.FREQ)
                     /\ LessEq(l.FREQ, to(max_frequency, "MHz").value)
    IN  SelectSeq(lines, inside)

\* the first of the lines whose FREQ is nearest to f
closest(lines, f) ==
    LET d(n) == AbsDiff(lines[n].FREQ, f.value)
        best == { n \in 1..Len(lines) : \A m \in 1..Len(lines) : LessEq(d(n), d(m)) }
    IN  lines[CHOOSE n \in best : \A m \in best : n <= m]

jplspec_window(transition_freq, lines) ==
    LET w  == to(jplspec_range, "MHz").value
        tf == to(transition_freq, "MHz").value
        lo == IF LessEq(w, tf) THEN AbsDiff(tf, w) ELSE <<0, 0>>
    IN  query_lines(MHz(lo[1], lo[2]), MHz(Plus(tf, w)[1], Plus(tf, w)[2]), lines)

\* the columns of the Phys object built from the picked line
from_jplspec(temp_estimate, transition_freq, lines) ==
    LET line == closest(jplspec_window(transition_freq, lines),
                        to(transition_freq, "MHz"))
    IN  [c \in {"t_freq", "elo_j", "degfr", "partfn"} |->
            CASE c = "t_freq" -> FreqTerm(MHz(line.FREQ[1], line.FREQ[2]))
              [] c = "elo_j"  -> App("J", << Lit("ELO", line.ELO) >>)
              [] c = "degfr"  -> Lit("degfreedom", line.DR)
              [] c = "partfn" -> App("partfn", << temp_estimate, Lit("TAG", line.TAG) >>)]

(***************************************************************************)
(* Cell 8: the LAMDA table of CO, a list of rows [Frequency, EinsteinA]     *)
(* (Frequency the GHz value), and the selection of its rows by frequency.   *)
(***************************************************************************)
\* the rows nearest to `value`, whatever their distance
lam_select_closest(lam_result, value) ==
    LET d(n) == AbsDiff(to(GHz(lam_result[n].Frequency[1], lam_result[n].Frequency[2]), "MHz").value,
                        to(GHz(value[1], value[2]), "MHz").value)
        near(r) == \E n \in 1..Len(lam_result) :
                      /\ lam_result[n] = r
                      /\ \A m \in 1..Len(lam_result) : LessEq(d(n), d(m))
    IN  SelectSeq(lam_result, near)

\* lam_result[lam_result['Frequency'] == value]
lam_select(lam_result, value) ==
    LET same(r) == r.Frequency = value
    IN  SelectSeq(lam_result, same)

\* a LAMDA table with the three lowest CO transitions, as the recorded run
\* (which completed cell 8) must have found it; EinsteinA stands for the
\* coefficient of the row
LamdaCO ==
    << [Frequency |-> <<115, 2712018>>, EinsteinA |-> 1],
       [Frequency |-> <<230, 5380000>>, EinsteinA |-> 2],
       [Frequency |-> <<345, 7959899>>, EinsteinA |-> 3] >>

(***************************************************************************)
(* Molecule identifiers.  A species name and a regular expression are the   *)
(* sequences of their characters.  The notebooks use literal characters,    *)
(* '.', and the anchors '^' and '$'; the search finds the expression        *)
(* anywhere in the name ('co' matches 'co', 'co2' and 'hco').               *)
(***************************************************************************)
anchored_start(regex) == Len(regex) > 0 /\ regex[1] = "^"

anchored_end(regex) == Len(regex) > 0 /\ regex[Len(regex)] = "$"

\* the expression without its anchors
pattern(regex) ==
    SubSeq(regex, IF anchored_start(regex) THEN 2 ELSE 1,
                  IF anchored_end(regex) THEN Len(regex) - 1 ELSE Len(regex))

\* one character of the expression against one character of the name
atom_matches_literal(atom, ch) == atom = ch

atom_matches(atom, ch) == atom = "." \/ atom = ch

\* the pattern matches the characters of `name` from position `pos` on
match_at(pat, name, pos) ==
    /\ pos + Len(pat) - 1 <= Len(name)
    /\ \A n \in 1..Len(pat) : atom_matches(pat[n], name[pos + n - 1])

\* re.search(regex, name) finds a match
re_search(regex, name) ==
    \E pos \in 1..(Len(name) + 1) :
        /\ anchored_start(regex) => pos = 1
        /\ match_at(pattern(regex), name, pos)
        /\ anchored_end(regex) => pos + Len(pattern(regex)) - 1 = Len(name)

(***************************************************************************)
(* The species of the catalog in catalog order (by tag), the lines of H2O   *)
(* the '^H.O$' query prints first, and JPLSpec.query_lines.                  *)
(***************************************************************************)
Species ==
    << [TAG |-> 18003, NAME |-> <<"H", "2", "O">>],
       [TAG |-> 19002, NAME |-> <<"H", "D", "O">>],
       [TAG |-> 28001, NAME |-> <<"C", "O">>],
       [TAG |-> 29004, NAME |-> <<"H", "C", "O">>],
       [TAG |-> 44003, NAME |-> <<"C", "O", "2">>] >>

H2O_lines ==
    << [FREQ |-> <<115542, 5692>>, ELO |-> 46061683, DR |-> 3, GUP |-> 35,  TAG |-> 18003],
       [FREQ |-> <<139614, 2930>>, ELO |-> 30801788, DR |-> 3, GUP |-> 87,  TAG |-> -18003],
       [FREQ |-> <<177317, 680>>,  ELO |-> 34372774, DR |-> 3, GUP |-> 31,  TAG |-> -18003],
       [FREQ |-> <<183310, 870>>,  ELO |-> 1361639,  DR |-> 3, GUP |-> 7,   TAG |-> -18003],
       [FREQ |-> <<247440, 960>>,  ELO |-> 28725806, DR |-> 3, GUP |-> 29,  TAG |-> -18003],
       [FREQ |-> <<259952, 1820>>, ELO |-> 27394286, DR |-> 3, GUP |-> 27,  TAG |-> -18003],
       [FREQ |-> <<266574, 983>>,  ELO |-> 57392279, DR |-> 3, GUP |-> 129, TAG |-> 18003],
       [FREQ |-> <<289008, 871>>,  ELO |-> 61677109, DR |-> 3, GUP |-> 129, TAG |-> 18003],
       [FREQ |-> <<294805, 1937>>, ELO |-> 67073362, DR |-> 3, GUP |-> 135, TAG |-> 18003],
       [FREQ |-> <<321225, 6770>>, ELO |-> 12829191, DR |-> 3, GUP |-> 63,  TAG |-> -18003] >>

\* the catalog: the lines of each species, by tag; `others` gives the lines
\* of the species whose lines the notebooks do not print
Catalog(others) ==
    [t \in {Species[n].TAG : n \in 1..Len(Species)} |->
        CASE t = 28001 -> CO_lines
          [] t = 18003 -> H2O_lines
          [] OTHER     -> others[t]]

\* molecule = "28001 CO": the species of that tag and name
by_name(tag, name) == [TAG |-> tag, NAME |-> name]

\* the species a molecule identifier selects, in catalog order: the regex
\* search over the names with parse_name_locally, the named species otherwise
select_species(molecule, parse_name_locally) ==
    LET found(sp) == IF parse_name_locally THEN re_search(molecule, sp.NAME)
                     ELSE sp = molecule
    IN  SelectSeq(Species, found)

RECURSIVE lines_of(_, _, _, _)
\* the lines of the selected species inside the frequency range, species
\* after species
lines_of(sps, catalog, min_frequency, max_frequency) ==
    IF sps = <<>> THEN <<>>
    ELSE query_lines(min_frequency, max_frequency, catalog[Head(sps).TAG])
            \o lines_of(Tail(sps), catalog, min_frequency, max_frequency)

\* max_lines: <<n>> when given, <<>> when left out
save_all(lines, max_lines) == lines

save(lines, max_lines) ==
    IF max_lines = <<>> \/ Len(lines) <= max_lines[1] THEN lines
    ELSE SubSeq(lines, 1, max_lines[1])

JPLSpec_query_lines(min_frequency, max_frequency, molecule, parse_name_locally, max_lines, catalog) ==
    save(lines_of(select_species(molecule, parse_name_locally), catalog,
                  min_frequency, max_frequency),
         max_lines)

\* mol_tag of Phys.from_jplspec is [tag |-> n] for a catalog tag and
\* [regex |-> r] for a regular expression; the species it names
jplspec_species(mol_tag) ==
    LET tagged(sp) == sp.TAG = mol_tag.tag
    IN  IF "tag" \in DOMAIN mol_tag THEN SelectSeq(Species, tagged)
        ELSE select_species(mol_tag.regex, TRUE)

\* no lines for the species whose lines the notebooks do not print
NoOtherLines == [t \in {19002, 29004, 44003} |-> <<>>]

(***************************************************************************)
(* Cell 10, the production-rate loop.  `pc` names the statement the kernel  *)
(* executes next; LoopBody lists the statements of the for body in source   *)
(* order.                                                                   *)
(***************************************************************************)
RangeStart == 0

RangeStop == 5

range_short(start, stop) == start .. (stop - 2)

range(start, stop) == start .. (stop - 1)

LoopBody_swapped ==
    << "time", "integrated_flux", "beta_factor", "Ephem.from_horizons",
       "mol_data['beta']", "LTE.cdensity_Bockelee",
       "mol_data['cdensity'] first guess", "NonLTE.from_pyradex",
       "mol_data['cdensity']", "total_number", "mol_data['total_number']",
       "from_Haser", "append" >>

LoopBody ==
    << "time", "integrated_flux", "Ephem.from_horizons", "beta_factor",
       "mol_data['beta']", "LTE.cdensity_Bockelee",
       "mol_data['cdensity'] first guess", "NonLTE.from_pyradex",
       "mol_data['cdensity']", "total_number", "mol_data['total_number']",
       "from_Haser", "append" >>

\* the statement executed after `label`: the next line of the body, or the
\* for statement again after the last one
Follows(label) ==
    LET n == CHOOSE m \in 1..Len(LoopBody) : LoopBody[m] = label
    IN  IF n = Len(LoopBody) THEN "for" ELSE LoopBody[n + 1]

(***************************************************************************)
(* The kernel namespace.  `requested` and `kinetic` are the transition      *)
(* frequency and the temperature (K) typed in the parameter cell,           *)
(* `identifier` the molecule identifier typed there ('^CO$' in cell 6),     *)
(* `lamda` what the LAMDA service answers, `table` the data file, `reruns`  *)
(* how many times the user has gone back to an earlier cell.                *)
(***************************************************************************)
NoExc == [iter |-> -1, call |-> "", type |-> ""]

Fresh(requested, kinetic, lamda, table) ==
    [ pc |-> "cell6", requested |-> requested, kinetic |-> kinetic, lamda |-> lamda,
      identifier |-> [regex |-> <<"^", "C", "O", "$">>], mol_tag |-> None,
      transition_freq |-> None, temp_estimate |-> None,
      mol_data |-> NoColumns, intl |-> None,
      lam_result |-> None, lam_found |-> None, au_cat |-> None, au |-> None,
      it |-> 0, i |-> -1, co |-> table,
      q_found_pyradex |-> <<>>,
      time |-> None, integrated_flux |-> None, ephemobj |-> None,
      beta |-> None, cdensity_bockelee |-> None, cdensity |-> None,
      tnum |-> None, Q |-> None,
      calls |-> <<>>, stderr |-> {}, exc |-> NoExc, reruns |-> 0 ]

Off == [pc |-> "off"]

\* an exception leaves the cell: nothing catches it
Raise_continue(k, what, kind) ==
    [k EXCEPT !.pc = "for", !.exc = [iter |-> k.i, call |-> what, type |-> kind]]

Raise(k, what, kind) ==
    [k EXCEPT !.pc = "raised", !.exc = [iter |-> k.i, call |-> what, type |-> kind]]

\* a library warning is written to stderr; execution goes on
Warn_as_error(k) == Raise([k EXCEPT !.stderr = @ \cup {k.i}], k.pc, "Warning")

Warn(k) == [k EXCEPT !.stderr = @ \cup {k.i}]

Called(k, name) == [k EXCEPT !.calls = Append(@, <<k.i, name>>)]

(***************************************************************************)
(* Cells 6 to 9, statement by statement.                                    *)
(***************************************************************************)
\* cell 6: transition_freq = (230.538 * u.GHz).to('MHz'); temp_estimate = 25. * u.K
cell6_stmt(k) ==
    { [k EXCEPT !.transition_freq = to(k.requested, "MHz"),
                !.temp_estimate = Lit("K", k.kinetic),
                !.mol_tag = k.identifier,
                !.pc = "Phys.from_jplspec"] }

\* the identifier must name one species
ambiguous_first(sps) == Len(sps) = 0

ambiguous(sps) == Len(sps) # 1

\* line 136: mol_data = Phys.from_jplspec(temp_estimate, transition_freq, mol_tag);
\* an identifier that does not name one species is an ambiguity error, and
\* with no line in the window there is nothing to build the object from
from_jplspec_stmt(k) ==
    LET sps   == jplspec_species(k.mol_tag)
        lines == Catalog(NoOtherLines)[sps[1].TAG]
    IN  IF ambiguous(sps)
        THEN { Raise(k, "Phys.from_jplspec", "ambiguity") }
        ELSE IF Len(jplspec_window(k.transition_freq, lines)) = 0
             THEN { Raise(k, "Phys.from_jplspec", "Exception") }
             ELSE { [k EXCEPT !.mol_data = from_jplspec(k.temp_estimate, k.transition_freq, lines),
                              !.pc = "intensity_conversion"] }

\* line 138: intl = intensity_conversion(mol_data)
intensity_conversion_stmt(k) ==
    { [k EXCEPT !.intl = App("intensity_conversion",
                             << PhysView(k.mol_data, Columns(k.mol_data)) >>),
                !.pc = "mol_data.apply intl"] }

\* lines 140-141: mol_data.apply([intl.value] * intl.unit, name='Integrated line ...')
apply_intl_stmt(k) ==
    IF Phys_apply_ok(k.mol_data, "Integrated line intensity at desired temp")
    THEN { [k EXCEPT !.mol_data = Phys_apply(@, "Integrated line intensity at desired temp", k.intl),
                     !.pc = "Lamda.query"] }
    ELSE { Raise(k, "mol_data.apply", "duplicate column") }

\* lines 176-178: lam_search = Lamda.query(mol='co'); lam_result = lam_search[1]
Lamda_query_stmt(k) ==
    { [k EXCEPT !.lam_result = k.lamda, !.pc = "lam_found"] }

\* line 180: lam_found = lam_result[lam_result['Frequency'] == transition_freq.to('GHz').value]
lam_found_stmt(k) ==
    { [k EXCEPT !.lam_found = lam_select(k.lam_result, to(k.transition_freq, "GHz").value),
                !.pc = "au_cat"] }

\* line 182: au_cat = lam_found['EinsteinA']
au_cat_stmt(k) ==
    { [k EXCEPT !.au_cat = [n \in 1..Len(k.lam_found) |-> k.lam_found[n].EinsteinA],
                !.pc = "au_cat.data[0]"] }

\* line 184: au_cat = au_cat.data[0]
data0_stmt(k) ==
    IF Len(k.au_cat) = 0
    THEN { Raise(k, "au_cat.data[0]", "IndexError") }
    ELSE { [k EXCEPT !.au_cat = k.au_cat[1], !.pc = "au"] }

\* line 186: au = au_cat / u.s
au_stmt(k) ==
    { [k EXCEPT !.au = Lit("1 / s", k.au_cat), !.pc = "mol_data.apply eincoeff"] }

\* line 188: mol_data.apply([au.value] * au.unit, name='eincoeff')
apply_eincoeff_stmt(k) ==
    IF Phys_apply_ok(k.mol_data, "eincoeff")
    THEN { [k EXCEPT !.mol_data = Phys_apply(@, "eincoeff", k.au), !.pc = "cell9"] }
    ELSE { Raise(k, "mol_data.apply", "duplicate column") }

\* cell 9: Q_estimate, parent, coma = Haser(Q_estimate, vgas, parent)
cell9_stmt(k) == { [k EXCEPT !.pc = "cell10"] }

SetupStmt(k) ==
    CASE k.pc = "cell6"                   -> cell6_stmt(k)
      [] k.pc = "Phys.from_jplspec"       -> from_jplspec_stmt(k)
      [] k.pc = "intensity_conversion"    -> intensity_conversion_stmt(k)
      [] k.pc = "mol_data.apply intl"     -> apply_intl_stmt(k)
      [] k.pc = "Lamda.query"             -> Lamda_query_stmt(k)
      [] k.pc = "lam_found"               -> lam_found_stmt(k)
      [] k.pc = "au_cat"                  -> au_cat_stmt(k)
      [] k.pc = "au_cat.data[0]"          -> data0_stmt(k)
      [] k.pc = "au"                      -> au_stmt(k)
      [] k.pc = "mol_data.apply eincoeff" -> apply_eincoeff_stmt(k)
      [] k.pc = "cell9"                   -> cell9_stmt(k)
      [] OTHER                            -> {}

RECURSIVE RunSetup(_)
\* cells 6 to 9 run one after the other (each statement has one outcome)
RunSetup(k) ==
    IF SetupStmt(k) = {} THEN k
    ELSE RunSetup(CHOOSE s \in SetupStmt(k) : TRUE)

\* the namespace when cell 10 starts on table `table`, after cells 6 to 9
\* have run with the notebook's parameters
Kernel(table) == RunSetup(Fresh(GHz(230, 5380000), 25, LamdaCO, table))

\* the columns that exist when the production-rate cell starts: those of
\* from_jplspec and the two applied in cells 7 and 8
BaseColumns ==
    {"t_freq", "elo_j", "degfr", "partfn",
     "Integrated line intensity at desired temp", "eincoeff"}

\* list.append
list_prepend(l, x) == <<x>> \o l

list_append(l, x) == Append(l, x)

\* the columns of mol_data a library call can rely on: those defined when
\* the call is made in the first iteration (which the recorded run completed)
Reads(call) ==
    CASE call = "beta_factor"           -> BaseColumns
      [] call = "LTE.cdensity_Bockelee" -> BaseColumns \cup {"beta"}
      [] call = "NonLTE.from_pyradex"   -> BaseColumns \cup {"beta", "cdensity"}
      [] call = "total_number"          -> BaseColumns \cup {"beta", "cdensity"}
      [] call = "from_Haser"            -> BaseColumns \cup {"beta", "cdensity", "total_number"}

\* an external call: it is made once, and either returns (`ret` is the
\* namespace with the result bound) or raises
External(k, name, ret) ==
    { [Called(ret, name) EXCEPT !.pc = Follows(name)],
      Raise(Called(k, name), name, "Exception") }

\* line 343: for i in range(0, 5)
for_stmt(k) ==
    LET nxt == RangeStart + k.it
    IN  IF nxt \in range(RangeStart, RangeStop)
        THEN { [k EXCEPT !.i = nxt, !.it = @ + 1, !.pc = LoopBody[1]] }
        ELSE { [k EXCEPT !.pc = "q_pred_co"] }

\* line 345: time = Time(co['Time'][i], format='iso')
time_stmt(k) ==
    IF k.i + 1 \in 1..Len(k.co)
    THEN { [k EXCEPT !.time = Lit("Time", k.co[k.i + 1].Time),
                     !.pc = Follows("time")] }
    ELSE { Raise(k, "co['Time'][i]", "IndexError") }

\* line 346: integrated_flux = co['T_B'][i] * u.K * u.km / u.s
integrated_flux_stmt_previous(k) ==
    LET row == IF k.i = 0 THEN 1 ELSE k.i
    IN  IF k.i + 1 \in 1..Len(k.co)
        THEN { [k EXCEPT !.integrated_flux = Lit("K km / s", k.co[row].T_B),
                         !.pc = Follows("integrated_flux")] }
        ELSE { Raise(k, "co['T_B'][i]", "IndexError") }

integrated_flux_stmt(k) ==
    IF k.i + 1 \in 1..Len(k.co)
    THEN { [k EXCEPT !.integrated_flux = Lit("K km / s", k.co[k.i + 1].T_B),
                     !.pc = Follows("integrated_flux")] }
    ELSE { Raise(k, "co['T_B'][i]", "IndexError") }

\* line 347: ephemobj = Ephem.from_horizons(target, epochs=time.jd)
from_horizons_stmt(k) ==
    External(k, "Ephem.from_horizons",
        [k EXCEPT !.ephemobj =
            App("Ephem.from_horizons", << target, App("jd", <<k.time>>) >>)])

\* line 348: beta = beta_factor(mol_data, ephemobj)
beta_factor_stmt(k) ==
    External(k, "beta_factor",
        [k EXCEPT !.beta =
            App("beta_factor",
                << PhysView(k.mol_data, Reads("beta_factor")), k.ephemobj >>)])

\* line 349: mol_data['beta'] = beta
set_beta_stmt(k) ==
    { [k EXCEPT !.mol_data = Phys_setitem(@, "beta", k.beta),
                !.pc = Follows("mol_data['beta']")] }

\* line 350: cdensity_bockelee = lte.cdensity_Bockelee(integrated_flux, mol_data)
cdensity_Bockelee_stmt(k) ==
    External(k, "LTE.cdensity_Bockelee",
        [k EXCEPT !.cdensity_bockelee =
            App("LTE.cdensity_Bockelee",
                << k.integrated_flux,
                   PhysView(k.mol_data, Reads("LTE.cdensity_Bockelee")) >>)])

\* line 351: mol_data['cdensity'] = cdensity_bockelee
set_first_guess_stmt(k) ==
    { [k EXCEPT !.mol_data = Phys_setitem(@, "cdensity", k.cdensity_bockelee),
                !.pc = Follows("mol_data['cdensity'] first guess")] }

\* line 352: cdensity = nonlte.from_pyradex(integrated_flux, mol_data)
\* pyradex may warn (missing data file, overflow, invalid value) while it runs
from_pyradex_stmt(k) ==
    LET k1 == Called(k, "NonLTE.from_pyradex")
        ret(s) == [s EXCEPT !.cdensity =
                      App("NonLTE.from_pyradex",
                          << k.integrated_flux,
                             PhysView(k.mol_data, Reads("NonLTE.from_pyradex")) >>),
                            !.pc = Follows("NonLTE.from_pyradex")]
        after(s) == IF s.pc = "raised" THEN {s}
                    ELSE {ret(s), Raise(s, "NonLTE.from_pyradex", "Exception")}
    IN  after(k1) \cup after(Warn(k1))

\* line 353: mol_data['cdensity'] = cdensity
set_cdensity_stmt(k) ==
    { [k EXCEPT !.mol_data = Phys_setitem(@, "cdensity", k.cdensity),
                !.pc = Follows("mol_data['cdensity']")] }

\* line 354: tnum = total_number(mol_data, aper, b)
total_number_stmt(k) ==
    External(k, "total_number",
        [k EXCEPT !.tnum =
            App("total_number",
                << PhysView(k.mol_data, Reads("total_number")), aper, b >>)])

\* line 355: mol_data['total_number'] = tnum
set_total_number_stmt(k) ==
    { [k EXCEPT !.mol_data = Phys_setitem(@, "total_number", k.tnum),
                !.pc = Follows("mol_data['total_number']")] }

\* line 357: Q = from_Haser(coma, mol_data, aper=aper)
from_Haser_stmt(k) ==
    External(k, "from_Haser",
        [k EXCEPT !.Q =
            App("from_Haser",
                << coma, PhysView(k.mol_data, Reads("from_Haser")), aper >>)])

\* line 359: q_found_pyradex.append(np.log10(Q.value)[0])
append_stmt(k) ==
    { [Called(k, "append") EXCEPT
          !.q_found_pyradex = list_append(@, App("log10", <<k.Q>>)),
          !.pc = Follows("append")] }

\* lines 339-341: nonlte = NonLTE(); q_found_pyradex = []; lte = LTE()
cell10_stmt(k) == { [k EXCEPT !.q_found_pyradex = <<>>, !.pc = "for"] }

\* line 361: q_pred_co = list(co['log(Q)'])
q_pred_co_stmt(k) == { [k EXCEPT !.pc = "done"] }

(***************************************************************************)
(* One run of the notebook: the actions.                                    *)
(***************************************************************************)
cell10 ==
    /\ nb.pc = "cell10"
    /\ nb' \in cell10_stmt(nb)
    /\ UNCHANGED nb2

for ==
    /\ nb.pc = "for"
    /\ nb' \in for_stmt(nb)
    /\ UNCHANGED nb2

time ==
    /\ nb.pc = "time"
    /\ nb' \in time_stmt(nb)
    /\ UNCHANGED nb2

integrated_flux ==
    /\ nb.pc = "integrated_flux"
    /\ nb' \in integrated_flux_stmt(nb)
    /\ UNCHANGED nb2

from_horizons ==
    /\ nb.pc = "Ephem.from_horizons"
    /\ nb' \in from_horizons_stmt(nb)
    /\ UNCHANGED nb2

beta_factor ==
    /\ nb.pc = "beta_factor"
    /\ nb' \in beta_factor_stmt(nb)
    /\ UNCHANGED nb2

set_beta ==
    /\ nb.pc = "mol_data['beta']"
    /\ nb' \in set_beta_stmt(nb)
    /\ UNCHANGED nb2

cdensity_Bockelee ==
    /\ nb.pc = "LTE.cdensity_Bockelee"
    /\ nb' \in cdensity_Bockelee_stmt(nb)
    /\ UNCHANGED nb2

set_first_guess ==
    /\ nb.pc = "mol_data['cdensity'] first guess"
    /\ nb' \in set_first_guess_stmt(nb)
    /\ UNCHANGED nb2

from_pyradex ==
    /\ nb.pc = "NonLTE.from_pyradex"
    /\ nb' \in from_pyradex_stmt(nb)
    /\ UNCHANGED nb2

set_cdensity ==
    /\ nb.pc = "mol_data['cdensity']"
    /\ nb' \in set_cdensity_stmt(nb)
    /\ UNCHANGED nb2

total_number ==
    /\ nb.pc = "total_number"
    /\ nb' \in total_number_stmt(nb)
    /\ UNCHANGED nb2

set_total_number ==
    /\ nb.pc = "mol_data['total_number']"
    /\ nb' \in set_total_number_stmt(nb)
    /\ UNCHANGED nb2

from_Haser ==
    /\ nb.pc = "from_Haser"
    /\ nb' \in from_Haser_stmt(nb)
    /\ UNCHANGED nb2

append ==
    /\ nb.pc = "append"
    /\ nb' \in append_stmt(nb)
    /\ UNCHANGED nb2

q_pred_co ==
    /\ nb.pc = "q_pred_co"
    /\ nb' \in q_pred_co_stmt(nb)
    /\ UNCHANGED nb2

Init == nb \in { Kernel(t) : t \in CoTables } /\ nb2 = Off

Next ==
    \/ cell10
    \/ for
    \/ time
    \/ integrated_flux
    \/ from_horizons
    \/ beta_factor
    \/ set_beta
    \/ cdensity_Bockelee
    \/ set_first_guess
    \/ from_pyradex
    \/ set_cdensity
    \/ total_number
    \/ set_total_number
    \/ from_Haser
    \/ append
    \/ q_pred_co

Spec == Init /\ [][Next]_vars

\* a cell runs to its end or to an exception: the kernel does not stop midway
FairSpec == Spec /\ WF_vars(Next)

(***************************************************************************)
(* Two runs of the notebook side by side, on two tables, each executing    *)
(* the same statement; neither run fails (a failed run appends nothing      *)
(* more, so only completed iterations can be compared).                     *)
(***************************************************************************)
Stmt(k) ==
    CASE k.pc = "cell10"                           -> cell10_stmt(k)
      [] k.pc = "for"                              -> for_stmt(k)
      [] k.pc = "time"                             -> time_stmt(k)
      [] k.pc = "integrated_flux"                  -> integrated_flux_stmt(k)
      [] k.pc = "Ephem.from_horizons"              -> from_horizons_stmt(k)
      [] k.pc = "beta_factor"                      -> beta_factor_stmt(k)
      [] k.pc = "mol_data['beta']"                 -> set_beta_stmt(k)
      [] k.pc = "LTE.cdensity_Bockelee"            -> cdensity_Bockelee_stmt(k)
      [] k.pc = "mol_data['cdensity'] first guess" -> set_first_guess_stmt(k)
      [] k.pc = "NonLTE.from_pyradex"              -> from_pyradex_stmt(k)
      [] k.pc = "mol_data['cdensity']"             -> set_cdensity_stmt(k)
      [] k.pc = "total_number"                     -> total_number_stmt(k)
      [] k.pc = "mol_data['total_number']"         -> set_total_number_stmt(k)
      [] k.pc = "from_Haser"                       -> from_Haser_stmt(k)
      [] k.pc = "append"                           -> append_stmt(k)
      [] k.pc = "q_pred_co"                        -> q_pred_co_stmt(k)
      [] OTHER                                     -> {}

\* the outcomes of a statement in which nothing is raised
Returned(succ) == { s \in succ : s.exc = NoExc }

\* both runs are made in the same environment: they see the same warnings
both_run ==
    /\ nb.pc = nb2.pc
    /\ nb' \in Returned(Stmt(nb))
    /\ nb2' \in Returned(Stmt(nb2))
    /\ nb'.stderr = nb2'.stderr

InitPair ==
    /\ nb = Kernel(RecordedCO)
    /\ nb2 \in { Kernel(t) : t \in CoTables }

NextPair == both_run

SpecPair == InitPair /\ [][NextPair]_vars

(***************************************************************************)
(* Cells 6 to 9 on their own: the transition frequency typed in cell 6 and  *)
(* the table the LAMDA service answers are the inputs.                      *)
(***************************************************************************)
\* how many rows the LAMDA table of an input has at most
MaxLamRows == 2

\* the parameter cells of the two notebooks (230.538 GHz at 25 K, 345.7 GHz
\* at 47 K), and two other frequencies: one 0.7 GHz above a CO line, one
\* 1.8 GHz below it
Requested ==
    { [freq |-> GHz(230, 5380000), temp |-> 25],
      [freq |-> GHz(345, 7000000), temp |-> 47],
      [freq |-> GHz(346, 5000000), temp |-> 25],
      [freq |-> GHz(344, 0),       temp |-> 25] }

\* frequencies a LAMDA row may carry: those transitions, to the last digit
\* or one digit off
\* the molecule identifiers of the notebooks: '^CO$', 'CO' and the tag 28001
Identifiers ==
    { [regex |-> <<"^", "C", "O", "$">>], [regex |-> <<"C", "O">>], [tag |-> 28001] }

LamFrequencies ==
    { <<230, 5380000>>, <<230, 5380001>>, <<345, 7959899>>, <<345, 7000000>> }

LamRows == [Frequency : LamFrequencies, EinsteinA : 1..2]

LamdaTables == UNION { [1..n -> LamRows] : n \in 0..MaxLamRows }

cell6 ==
    /\ nb.pc = "cell6"
    /\ nb' \in cell6_stmt(nb)
    /\ UNCHANGED nb2

Phys_from_jplspec ==
    /\ nb.pc = "Phys.from_jplspec"
    /\ nb' \in from_jplspec_stmt(nb)
    /\ UNCHANGED nb2

intensity_conversion ==
    /\ nb.pc = "intensity_conversion"
    /\ nb' \in intensity_conversion_stmt(nb)
    /\ UNCHANGED nb2

apply_intl ==
    /\ nb.pc = "mol_data.apply intl"
    /\ nb' \in apply_intl_stmt(nb)
    /\ UNCHANGED nb2

Lamda_query ==
    /\ nb.pc = "Lamda.query"
    /\ nb' \in Lamda_query_stmt(nb)
    /\ UNCHANGED nb2

lam_found ==
    /\ nb.pc = "lam_found"
    /\ nb' \in lam_found_stmt(nb)
    /\ UNCHANGED nb2

au_cat ==
    /\ nb.pc = "au_cat"
    /\ nb' \in au_cat_stmt(nb)
    /\ UNCHANGED nb2

data0 ==
    /\ nb.pc = "au_cat.data[0]"
    /\ nb' \in data0_stmt(nb)
    /\ UNCHANGED nb2

au ==
    /\ nb.pc = "au"
    /\ nb' \in au_stmt(nb)
    /\ UNCHANGED nb2

apply_eincoeff ==
    /\ nb.pc = "mol_data.apply eincoeff"
    /\ nb' \in apply_eincoeff_stmt(nb)
    /\ UNCHANGED nb2

cell9 ==
    /\ nb.pc = "cell9"
    /\ nb' \in cell9_stmt(nb)
    /\ UNCHANGED nb2

InitSetup ==
    /\ nb \in { [Fresh(r.freq, r.temp, l, RecordedCO) EXCEPT !.identifier = m] :
                    r \in Requested, l \in LamdaTables, m \in Identifiers }
    /\ nb2 = Off

NextSetup ==
    \/ cell6
    \/ Phys_from_jplspec
    \/ intensity_conversion
    \/ apply_intl
    \/ Lamda_query
    \/ lam_found
    \/ au_cat
    \/ data0
    \/ au
    \/ apply_eincoeff
    \/ cell9

SpecSetup == InitSetup /\ [][NextSetup]_vars

(***************************************************************************)
(* The production-rate loop: properties.                                    *)
(***************************************************************************)
\* the calls of one iteration, in the order of the source
CallOrder ==
    << "Ephem.from_horizons", "beta_factor", "LTE.cdensity_Bockelee",
       "NonLTE.from_pyradex", "total_number", "from_Haser", "append" >>

Appends(k) == { n \in 1..Len(k.calls) : k.calls[n][2] = "append" }

\* C1: the calls made so far are an initial part of the schedule
\* "iteration 0: from_horizons, beta_factor, cdensity_Bockelee, from_pyradex,
\* total_number, from_Haser, append; iteration 1: ...": each call once per
\* iteration, in source order, nothing of iteration i+1 before the append of i.
C1_CallsInSourceOrder ==
    /\ \A n \in 1..Len(nb.calls) :
          nb.calls[n] = << (n - 1) \div Len(CallOrder),
                           CallOrder[((n - 1) % Len(CallOrder)) + 1] >>
    /\ Len(nb.q_found_pyradex) = Cardinality(Appends(nb))

C1_Witness ==
    /\ nb.pc = "done"
    /\ Len(nb.calls) = 5 * Len(CallOrder)
    /\ nb.calls[8] = <<1, "Ephem.from_horizons">>

DocumentedDataPoints == 6

\* C3: after the loop q_found_pyradex has one entry for each of the 6 data
\* points of data/CO.csv.
C3_SixDataPoints ==
    nb.pc = "done" =>
        /\ Len(nb.co) = DocumentedDataPoints
        /\ Len(nb.q_found_pyradex) = Len(nb.co)
        /\ Len(nb.q_found_pyradex) = DocumentedDataPoints

LoopColumns == {"beta", "cdensity", "total_number"}

\* C4: while the loop runs, mol_data has the columns beta, cdensity and
\* total_number: they were initialized before it, so that an assignment in
\* the loop only changes the value of an existing column.
C4_ColumnsInitializedBeforeLoop ==
    nb.pc \in {"for"} \cup { LoopBody[n] : n \in 1..Len(LoopBody) } =>
        LoopColumns \subseteq Columns(nb.mol_data)

RECURSIVE Atoms(_)
\* the table entries a value was computed from
Atoms(t) ==
    IF t.op \in {"Time", "K km / s"} THEN { <<t.op, t.v>> }
    ELSE UNION { Atoms(t.args[n]) : n \in DOMAIN t.args }

RowAtoms(row) == { <<"Time", row.Time>>, <<"K km / s", row.T_B>> }

\* the iterations that have run to their end
Completed(k) ==
    IF k.pc \in {"cell10", "for", "q_pred_co", "done"} THEN k.it ELSE k.it - 1

IsPrefix(s, t) == Len(s) <= Len(t) /\ \A n \in 1..Len(s) : s[n] = t[n]

C6_NoRetryNoRecovery ==
    nb.exc # NoExc =>
        /\ nb.pc = "raised"
        /\ ~ENABLED Next
        /\ nb.i = nb.exc.iter
        /\ Len(nb.q_found_pyradex) = nb.exc.iter
        /\ nb.calls[Len(nb.calls)] = <<nb.exc.iter, nb.exc.call>>
        /\ \A m, n \in 1..Len(nb.calls) : m # n => nb.calls[m] # nb.calls[n]

C6_Witness ==
    /\ nb.pc = "raised"
    /\ nb.exc = [iter |-> 2, call |-> "total_number", type |-> "Exception"]
    /\ Len(nb.q_found_pyradex) = 2

IterationOver(k, j) == j < k.i \/ (j = k.i /\ k.pc \in {"for", "q_pred_co", "done"})

\* C7: a warning is never raised as an exception, the statement after
\* from_pyradex runs next whether or not it warned, and an iteration that
\* warned and was not ended by an exception has called total_number and
\* from_Haser and appended its result; the loop still runs all iterations.
C7_WarningsPassThrough ==
    /\ nb.exc.type # "Warning"
    /\ \A j \in nb.stderr :
          /\ j <= nb.i
          /\ (j = nb.i /\ nb.exc = NoExc) =>
                nb.pc \in {"for", "q_pred_co", "done"} \cup
                    { LoopBody[n] : n \in 9..Len(LoopBody) }
          /\ IterationOver(nb, j) =>
                /\ Len(nb.q_found_pyradex) > j
                /\ \A c \in {"total_number", "from_Haser", "append"} :
                      \E n \in 1..Len(nb.calls) : nb.calls[n] = <<j, c>>
    /\ (nb.pc = "done" /\ nb.stderr # {}) => nb.it = 5

C7_Witness ==
    /\ nb.pc = "done"
    /\ nb.stderr = 0..4
    /\ Len(nb.q_found_pyradex) = 5

MaxNameLen == 4

NameChars == {"C", "O", "H", "2", "D"}

Names == UNION { [1..n -> NameChars] : n \in 1..MaxNameLen }

\* 'CO$', '^CO$', '^H.O$' and 'CO'
Regexes ==
    { <<"C", "O", "$">>, <<"^", "C", "O", "$">>, <<"^", "H", ".", "O", "$">>,
      <<"C", "O">> }

find ==
    /\ nb.pc = "find"
    /\ nb' = [nb EXCEPT !.found = re_search(nb.regex, nb.name), !.pc = "found"]
    /\ UNCHANGED nb2

InitRegex ==
    /\ nb \in { [pc |-> "find", regex |-> r, name |-> n, found |-> FALSE] :
                    r \in Regexes, n \in Names }
    /\ nb2 = Off

NextRegex == find

SpecRegex == InitRegex /\ [][NextRegex]_vars

(***************************************************************************)
(* The notebook with cells run again: before cell 10 is run, after cell 9   *)
(* or after an exception has ended a cell, the user may go back to cell 7   *)
(* or cell 8 and run the cells from there.                                  *)
(***************************************************************************)
\* how many times the user goes back at most
MaxReruns == 2

run_again ==
    /\ nb.pc = "cell10" \/ (nb.pc = "raised" /\ nb.i = -1)
    /\ nb.reruns < MaxReruns
    /\ \E first \in {"Phys.from_jplspec", "Lamda.query"} :
          nb' = [nb EXCEPT !.pc = first, !.exc = NoExc, !.reruns = @ + 1]
    /\ UNCHANGED nb2

InitRerun ==
    /\ nb = Fresh(GHz(230, 5380000), 25, LamdaCO, RecordedCO)
    /\ nb2 = Off

NextRerun ==
    \/ NextSetup
    \/ Next
    \/ run_again

SpecRerun == InitRerun /\ [][NextRerun]_vars

(***************************************************************************)
(* The JPLSpec notebook: cells 2, 3, 4, 7 and 11 to 13.  The frequency      *)
(* range and max_lines typed in cells 2 and 3 and the catalog's lines of    *)
(* the species the notebook does not print are the inputs.                  *)
(***************************************************************************)
\* how many lines the catalog has at most for a species not printed
MaxOtherLines == 2

\* the largest max_lines typed
MaxLinesArg == 8

\* frequencies (MHz) a line of such a species may have
OtherFREQ == << <<90000, 0>>, <<300000, 0>>, <<600000, 0>> >>

\* the line lists of a species with tag t: lines in order of frequency
OtherLists(t) ==
    { [n \in 1..Cardinality(S) |->
          LET m == CHOOSE x \in S : Cardinality({y \in S : y < x}) = n - 1
          IN  [FREQ |-> OtherFREQ[m], ELO |-> 0, DR |-> 3, GUP |-> 1, TAG |-> t]] :
      S \in { T \in SUBSET (1..Len(OtherFREQ)) : Cardinality(T) <= MaxOtherLines } }

OtherCatalogs ==
    { [t \in {19002, 29004, 44003} |-> IF t = 19002 THEN x ELSE IF t = 29004 THEN y ELSE z] :
      x \in OtherLists(19002), y \in OtherLists(29004), z \in OtherLists(44003) }

\* the ranges of the notebook's queries, in GHz
Ranges == { <<100, 1000>>, <<100, 500>>, <<100, 700>> }

MaxLinesArgs == { <<>> } \cup { <<n>> : n \in 1..MaxLinesArg }

FreshJPL(cutoff, max_lines, others) ==
    [ pc |-> "cell2",
      min_frequency |-> GHz(cutoff[1], 0), max_frequency |-> GHz(cutoff[2], 0),
      max_lines |-> max_lines, others |-> others,
      response |-> <<>>, out2 |-> <<>>, out3 |-> <<>>, response1 |-> <<>>,
      convert |-> <<>>,
      temp_estimate |-> None, mol_tag |-> None, transition_freq |-> None,
      mol_data |-> NoColumns, out12 |-> NoColumns, out13 |-> NoColumns,
      i |-> -1, exc |-> NoExc ]

\* cell 2: response = JPLSpec.query_lines(..., molecule="28001 CO", max_lines=...); print
cell2_stmt(k) ==
    LET r == JPLSpec_query_lines(k.min_frequency, k.max_frequency,
                                 by_name(28001, <<"C", "O">>), FALSE,
                                 k.max_lines, Catalog(k.others))
    IN  { [k EXCEPT !.response = r, !.out2 = r, !.pc = "cell3"] }

\* cell 3: response = JPLSpec.query_lines(..., molecule="CO$", parse_name_locally=True, ...); print
cell3_stmt(k) ==
    LET r == JPLSpec_query_lines(k.min_frequency, k.max_frequency,
                                 <<"C", "O", "$">>, TRUE,
                                 k.max_lines, Catalog(k.others))
    IN  { [k EXCEPT !.response = r, !.out3 = r, !.pc = "cell4"] }

\* cell 4: response1 = JPLSpec.query_lines(100 GHz, 500 GHz, molecule="^H.O$",
\* parse_name_locally=True), without max_lines
cell4_stmt(k) ==
    { [k EXCEPT !.response1 =
                    JPLSpec_query_lines(GHz(100, 0), GHz(500, 0),
                                        <<"^", "H", ".", "O", "$">>, TRUE,
                                        <<>>, Catalog(k.others)),
                !.pc = "cell7"] }

\* column.to('GHz'): every value of the column, converted
column_to(col, unit) ==
    [n \in 1..Len(col) |-> to(MHz(col[n][1], col[n][2]), unit).value]

\* cell 7: convert = response['FREQ'].to('GHz')
cell7_stmt(k) ==
    { [k EXCEPT !.convert =
                    column_to([n \in 1..Len(k.response) |-> k.response[n].FREQ], "GHz"),
                !.pc = "cell11"] }

\* the cell ends where `label` starts, unless an exception has ended it
then(succ, label) ==
    { IF s.exc = NoExc THEN [s EXCEPT !.pc = label] ELSE s : s \in succ }

\* cell 11: temp_estimate = 47. * u.K; mol_tag = 28001;
\* transition_freq = (345.7 * u.GHz).to('MHz'); mol_data = Phys.from_jplspec(...)
cell11_stmt(k) ==
    then(from_jplspec_stmt([k EXCEPT !.temp_estimate = Lit("K", 47),
                                     !.mol_tag = [tag |-> 28001],
                                     !.transition_freq = to(GHz(345, 7000000), "MHz")]),
         "cell12")

\* cell 12: print(mol_data['elo_j']); print(mol_data['degfr']); print(mol_data['partfn'])
cell12_stmt(k) ==
    { [k EXCEPT !.out12 = [c \in {"elo_j", "degfr", "partfn"} |-> k.mol_data[c]],
                !.pc = "cell13"] }

\* cell 13: mol_tag = '^CO$'; mol_data = Phys.from_jplspec(...); the three prints
cell13_stmt(k) ==
    { IF s.exc = NoExc
      THEN [s EXCEPT !.out13 = [c \in {"elo_j", "degfr", "partfn"} |-> s.mol_data[c]]]
      ELSE s :
      s \in then(from_jplspec_stmt([k EXCEPT !.mol_tag = [regex |-> <<"^", "C", "O", "$">>]]),
                 "end") }

cell2 ==
    /\ nb.pc = "cell2"
    /\ nb' \in cell2_stmt(nb)
    /\ UNCHANGED nb2

cell3 ==
    /\ nb.pc = "cell3"
    /\ nb' \in cell3_stmt(nb)
    /\ UNCHANGED nb2

cell4 ==
    /\ nb.pc = "cell4"
    /\ nb' \in cell4_stmt(nb)
    /\ UNCHANGED nb2

cell7 ==
    /\ nb.pc = "cell7"
    /\ nb' \in cell7_stmt(nb)
    /\ UNCHANGED nb2

cell11 ==
    /\ nb.pc = "cell11"
    /\ nb' \in cell11_stmt(nb)
    /\ UNCHANGED nb2

cell12 ==
    /\ nb.pc = "cell12"
    /\ nb' \in cell12_stmt(nb)
    /\ UNCHANGED nb2

cell13 ==
    /\ nb.pc = "cell13"
    /\ nb' \in cell13_stmt(nb)
    /\ UNCHANGED nb2

InitJPLSpec ==
    /\ nb \in { FreshJPL(r, m, o) : r \in Ranges, m \in MaxLinesArgs, o \in OtherCatalogs }
    /\ nb2 = Off

NextJPLSpec ==
    \/ cell2
    \/ cell3
    \/ cell4
    \/ cell7
    \/ cell11
    \/ cell12
    \/ cell13

SpecJPLSpec == InitJPLSpec /\ [][NextJPLSpec]_vars

(***************************************************************************)
(* The Orbit notebook (src/unnamed/part_000, first notebook).  A Julian     *)
(* date is the pair <<days, 0.0001 days>>.  The list of targets typed in    *)
(* cell 1 and the time the notebook is run at are the inputs.               *)
(***************************************************************************)
\* how many targets the list of cell 1 has at most
MaxTargets == 3

TargetIds == {"3552", "259P", "Ceres"}

\* the name Horizons gives for a target identifier
Horizons_targetname(id) ==
    CASE id = "3552"  -> "3552 Don Quixote (1983 SA)"
      [] id = "259P"  -> "259P/Garradd"
      [] id = "Ceres" -> "1 Ceres"

\* the recorded run (JD 2458377.5242) and later ones
RunTimes == { <<2458377, 5242>>, <<2458378, 0>>, <<2460000, 0>> }

\* Orbit.from_horizons(targetids) without epochs: the elements of each
\* target at the current epoch, one row per target
Orbit_from_horizons_reversed(targetids, now) ==
    [n \in 1..Len(targetids) |->
        [targetname  |-> Horizons_targetname(targetids[Len(targetids) + 1 - n]),
         datetime_jd |-> now,
         elements    |-> App("elements", << Lit(targetids[Len(targetids) + 1 - n], 0),
                                            Lit("JD", now[1]) >>)]]

Orbit_from_horizons(targetids, now) ==
    [n \in 1..Len(targetids) |->
        [targetname  |-> Horizons_targetname(targetids[n]),
         datetime_jd |-> now,
         elements    |-> App("elements", << Lit(targetids[n], 0), Lit("JD", now[1]) >>)]]

\* orbit.oo_propagate(epoch): the orbit at `epoch`
oo_propagate(orbit, epoch) ==
    [n \in 1..Len(orbit) |->
        [targetname  |-> orbit[n].targetname,
         datetime_jd |-> epoch,
         elements    |-> App("oo_propagate", << orbit[n].elements, Lit("JD", epoch[1]) >>)]]

\* Orbit.oo_transform(orbit, orbittype)
oo_transform(orbit, orbittype) ==
    [n \in 1..Len(orbit) |->
        [orbit[n] EXCEPT !.elements = App("oo_transform", << @, Lit(orbittype, 0) >>)]]

FreshOrbit(targetids, now) ==
    [ pc |-> "orb", targetids |-> targetids, now |-> now,
      orb |-> <<>>, orbit |-> <<>>, com |-> <<>>, cart |-> <<>>, new_orbit |-> <<>>,
      i |-> -1, exc |-> NoExc ]

\* a call of a remote service or of pyoorb returns or raises
Outcomes(k, name, ret) == { ret, Raise(k, name, "Exception") }

\* cell 1: orb = Orbit.from_horizons(['3552', '259P']); print(orb.table)
orb_stmt(k) ==
    Outcomes(k, "Orbit.from_horizons",
        [k EXCEPT !.orb = Orbit_from_horizons(k.targetids, k.now), !.pc = "orbit"])

\* cells 2 and 3: orbit = Orbit.from_horizons('Ceres')
orbit_stmt(k) ==
    Outcomes(k, "Orbit.from_horizons",
        [k EXCEPT !.orbit = Orbit_from_horizons(<<"Ceres">>, k.now),
                  !.pc = IF k.com = <<>> THEN "com" ELSE "new_orbit"])

\* cell 2: com = Orbit.oo_transform(orbit, 'COM')
com_stmt(k) ==
    Outcomes(k, "Orbit.oo_transform",
        [k EXCEPT !.com = oo_transform(k.orbit, "COM"), !.pc = "cart"])

\* cell 2: cart = Orbit.oo_transform(orbit, 'CART')
cart_stmt(k) ==
    Outcomes(k, "Orbit.oo_transform",
        [k EXCEPT !.cart = oo_transform(k.orbit, "CART"), !.pc = "orbit"])

\* cell 3: new_orbit = orbit.oo_propagate(2454531.2313)
new_orbit_stmt(k) ==
    Outcomes(k, "Orbit.oo_propagate",
        [k EXCEPT !.new_orbit = oo_propagate(k.orbit, <<2454531, 2313>>), !.pc = "end"])

orb ==
    /\ nb.pc = "orb"
    /\ nb' \in orb_stmt(nb)
    /\ UNCHANGED nb2

orbit ==
    /\ nb.pc = "orbit"
    /\ nb' \in orbit_stmt(nb)
    /\ UNCHANGED nb2

com ==
    /\ nb.pc = "com"
    /\ nb' \in com_stmt(nb)
    /\ UNCHANGED nb2

cart ==
    /\ nb.pc = "cart"
    /\ nb' \in cart_stmt(nb)
    /\ UNCHANGED nb2

new_orbit ==
    /\ nb.pc = "new_orbit"
    /\ nb' \in new_orbit_stmt(nb)
    /\ UNCHANGED nb2

InitOrbit ==
    /\ nb \in { FreshOrbit(t, now) :
                    t \in UNION { [1..n -> TargetIds] : n \in 1..MaxTargets },
                    now \in RunTimes }
    /\ nb2 = Off

NextOrbit ==
    \/ orb
    \/ orbit
    \/ com
    \/ cart
    \/ new_orbit

SpecOrbit == InitOrbit /\ [][NextOrbit]_vars

(***************************************************************************)
(* The JPLSpec notebook, cells 8 and 9: the species table and the fit of    *)
(* the partition function.  QLOG values are in 0.0001; only the H2O row is  *)
(* recorded, the QLOG values of the other species are terms.  Of the        *)
(* temperatures only that of QLOG1 is recorded (300 K); the others are      *)
(* inputs.                                                                  *)
(***************************************************************************)
\* the QLOG columns of the species table
QLOGColumns == 7

\* the temperature recorded for QLOG1
QLOG1Temperature == 300

\* the temperatures of QLOG2 .. QLOG7 are drawn from 1..MaxTemperature
MaxTemperature == 2

H2O_QLOG == << 22507, 20645, 18040, 13649, 9335, 4819, 994 >>

QLOG_of(sp) ==
    [k \in 1..QLOGColumns |->
        IF sp.TAG = 18003 THEN Lit("QLOG", H2O_QLOG[k])
        ELSE App("QLOG", << Lit("TAG", sp.TAG), Lit("column", k) >>)]

TemperatureLists ==
    { <<QLOG1Temperature>> \o t : t \in [1..(QLOGColumns - 1) -> 1..MaxTemperature] }

\* the names typed in the selection of cell 8: those of the table and one
\* that is not in it
TypedNames == { Species[n].NAME : n \in 1..Len(Species) } \cup { <<"H", "2">> }

\* JPLSpec.get_species_table(): the rows of catdir.cat, the temperature of
\* each QLOG column in the column's metadata and the list of all of them in
\* the table's metadata
get_species_table(temperatures) ==
    [ meta    |-> temperatures,
      colmeta |-> [k \in 1..QLOGColumns |-> [Temperature |-> temperatures[k]]],
      rows    |-> [n \in 1..Len(Species) |->
                     [TAG |-> Species[n].TAG, NAME |-> Species[n].NAME,
                      QLOG |-> QLOG_of(Species[n])]] ]

\* cat['NAME'] == name, row by row
name_equals(cell, name) == cell = name

\* table[mask]: the rows the mask selects; the metadata stay
Table_select(table, name) ==
    LET keep(row) == name_equals(row.NAME, name)
    IN  [table EXCEPT !.rows = SelectSeq(@, keep)]

\* list(table['QLOG1', ..., 'QLOG7'][0]): the named columns of the first
\* row, in the order they are named
columns_of_row_reversed(row, cols) == [n \in 1..Len(cols) |-> row.QLOG[cols[Len(cols) + 1 - n]]]

columns_of_row(row, cols) == [n \in 1..Len(cols) |-> row.QLOG[cols[n]]]

FreshSpecies(name, temperatures) ==
    [ pc |-> "get_species_table", name |-> name, temperatures |-> temperatures,
      cat |-> None, mol |-> None, temp |-> None, part |-> <<>>,
      curve_fit_args |-> <<>>, param |-> None, part160 |-> None,
      i |-> -1, exc |-> NoExc ]

\* cell 8: cat = JPLSpec.get_species_table()
get_species_table_stmt(k) ==
    { [k EXCEPT !.cat = get_species_table(k.temperatures), !.pc = "mol"] }

\* cell 8: mol = cat[cat['NAME'] == 'H2O']; print(mol)
mol_stmt(k) ==
    { [k EXCEPT !.mol = Table_select(k.cat, k.name), !.pc = "QLOG1.meta"] }

\* cell 8: temp = mol['QLOG1'].meta; print(temp)
QLOG1_meta_stmt(k) ==
    { [k EXCEPT !.temp = k.mol.colmeta[1], !.pc = "cat.meta"] }

\* cell 9: temp = cat.meta['Temperature (K)']
cat_meta_stmt(k) ==
    { [k EXCEPT !.temp = k.cat.meta, !.pc = "part"] }

\* cell 9: part = list(mol['QLOG1','QLOG2','QLOG3','QLOG4','QLOG5','QLOG6','QLOG7'][0])
part_stmt(k) ==
    IF Len(k.mol.rows) = 0
    THEN { Raise(k, "mol[...][0]", "IndexError") }
    ELSE { [k EXCEPT !.part = columns_of_row(k.mol.rows[1], <<1, 2, 3, 4, 5, 6, 7>>),
                     !.pc = "curve_fit"] }

\* cell 9: param, cov = curve_fit(f, temp, part, bounds=(0.00001, np.inf))
curve_fit_stmt(k) ==
    LET k1 == [k EXCEPT !.curve_fit_args = <<k.temp, k.part>>]
    IN  IF Len(k.temp) # Len(k.part)
        THEN { Raise(k1, "curve_fit", "ValueError") }
        ELSE Outcomes(k1, "curve_fit",
                 [k1 EXCEPT !.param = App("curve_fit",
                                          << App("temp", [n \in 1..Len(k.temp) |-> Lit("K", k.temp[n])]),
                                             App("part", k.part) >>),
                            !.pc = "part160"])

\* cell 9: part160 = 10**(f(160., param[0])); print(part160)
part160_stmt(k) ==
    { [k EXCEPT !.part160 = App("10**f", << Lit("K", 160), k.param >>), !.pc = "end"] }

get_species_table_cell ==
    /\ nb.pc = "get_species_table"
    /\ nb' \in get_species_table_stmt(nb)
    /\ UNCHANGED nb2

mol ==
    /\ nb.pc = "mol"
    /\ nb' \in mol_stmt(nb)
    /\ UNCHANGED nb2

QLOG1_meta ==
    /\ nb.pc = "QLOG1.meta"
    /\ nb' \in QLOG1_meta_stmt(nb)
    /\ UNCHANGED nb2

cat_meta ==
    /\ nb.pc = "cat.meta"
    /\ nb' \in cat_meta_stmt(nb)
    /\ UNCHANGED nb2

part ==
    /\ nb.pc = "part"
    /\ nb' \in part_stmt(nb)
    /\ UNCHANGED nb2

curve_fit ==
    /\ nb.pc = "curve_fit"
    /\ nb' \in curve_fit_stmt(nb)
    /\ UNCHANGED nb2

part160 ==
    /\ nb.pc = "part160"
    /\ nb' \in part160_stmt(nb)
    /\ UNCHANGED nb2

InitSpecies ==
    /\ nb \in { FreshSpecies(n, t) : n \in TypedNames, t \in TemperatureLists }
    /\ nb2 = Off

NextSpecies ==
    \/ get_species_table_cell
    \/ mol
    \/ QLOG1_meta
    \/ cat_meta
    \/ part
    \/ curve_fit
    \/ part160

SpecSpecies == InitSpecies /\ [][NextSpecies]_vars

(***************************************************************************)
(* The set-up cells: properties.                                            *)
(***************************************************************************)
\* the rows of the LAMDA answer whose Frequency is exactly the transition
\* frequency typed in the parameter cell (in GHz)
ExactRows(k) == { n \in 1..Len(k.lamda) : k.lamda[n].Frequency = k.requested.value }

FirstExactRow(k) == CHOOSE n \in ExactRows(k) : \A m \in ExactRows(k) : n <= m

BeforeLookup == {"cell6", "Phys.from_jplspec", "intensity_conversion",
                 "mol_data.apply intl", "Lamda.query", "lam_found", "au_cat",
                 "au_cat.data[0]"}

\* C9: the Einstein coefficient is looked up by exact equality with the
\* transition frequency in GHz.  With a row of exactly that frequency its
\* EinsteinA becomes the column 'eincoeff'; with none, whatever other rows
\* there are, the cell fails at au_cat.data[0], nothing runs after it, and
\* mol_data gets no 'eincoeff'.
C9_ExactFrequencyLookup ==
    /\ (nb.pc \notin BeforeLookup /\ nb.exc.call # "Phys.from_jplspec"
            /\ ExactRows(nb) = {}) =>
          /\ nb.pc = "raised"
          /\ nb.exc.call = "au_cat.data[0]"
          /\ ~ENABLED NextSetup
    /\ ExactRows(nb) = {} => "eincoeff" \notin Columns(nb.mol_data)
    /\ (nb.pc \in {"cell9", "cell10"} /\ ExactRows(nb) # {}) =>
          /\ "eincoeff" \in Columns(nb.mol_data)
          /\ nb.mol_data["eincoeff"] = Lit("1 / s", nb.lamda[FirstExactRow(nb)].EinsteinA)
    /\ nb.exc.call = "au_cat.data[0]" => ExactRows(nb) = {}

\* the cell fails although the table has a row one digit away
C9_Witness ==
    /\ nb.pc = "raised"
    /\ nb.exc.call = "au_cat.data[0]"
    /\ nb.requested = GHz(230, 5380000)
    /\ Len(nb.lamda) = 2
    /\ nb.lamda[1].Frequency = <<230, 5380001>>
    /\ "eincoeff" \notin Columns(nb.mol_data)

\* the catalog lines within 1 GHz (1000 MHz) of the frequency `req` in MHz
Within1GHz(req) ==
    { n \in 1..Len(CO_lines) : LessEq(AbsDiff(CO_lines[n].FREQ, req), <<1000, 0>>) }

\* C10: once from_jplspec has been called, the line it has picked is a line
\* of the CO list within 1 GHz of the requested frequency and none of those
\* is nearer (with no line that near it picks none); asked for 345.7 GHz it
\* picks 345795.9899 MHz (lower level 11.535 / cm), asked for 230.538 GHz
\* it picks 230538.0 MHz.
C10_ClosestLineWithin1GHz ==
    LET req == to(nb.requested, "MHz").value
    IN  (nb.pc \notin {"cell6", "Phys.from_jplspec"} /\ nb.exc.type # "ambiguity") =>
          /\ Within1GHz(req) = {} =>
                /\ nb.exc.call = "Phys.from_jplspec"
                /\ "t_freq" \notin Columns(nb.mol_data)
          /\ Within1GHz(req) # {} =>
                /\ "t_freq" \in Columns(nb.mol_data)
                /\ \E n \in Within1GHz(req) :
                      /\ nb.mol_data["t_freq"] =
                            FreqTerm(MHz(CO_lines[n].FREQ[1], CO_lines[n].FREQ[2]))
                      /\ nb.mol_data["elo_j"] = App("J", << Lit("ELO", CO_lines[n].ELO) >>)
                      /\ \A m \in Within1GHz(req) :
                            LessEq(AbsDiff(CO_lines[n].FREQ, req),
                                   AbsDiff(CO_lines[m].FREQ, req))
          /\ nb.requested = GHz(345, 7000000) =>
                /\ nb.mol_data["t_freq"] = FreqTerm(MHz(345795, 9899))
                /\ nb.mol_data["elo_j"] = App("J", << Lit("ELO", 115350) >>)
          /\ nb.requested = GHz(230, 5380000) =>
                nb.mol_data["t_freq"] = FreqTerm(MHz(230538, 0))

\* from_jplspec has returned the 345795.9899 MHz line for 345.7 GHz
C10_Witness ==
    /\ nb.pc = "intensity_conversion"
    /\ nb.requested = GHz(345, 7000000)
    /\ nb.mol_data["t_freq"] = FreqTerm(MHz(345795, 9899))

(***************************************************************************)
(* Molecule identifiers: properties.                                        *)
(***************************************************************************)
\* C12: the expression 'CO$' selects no name other than 'CO' (not 'CO2',
\* not 'HCO', not 'H2CO').
C12_DollarMatchesOnlyCO ==
    (/\ nb.pc = "found"
     /\ nb.regex = <<"C", "O", "$">>
     /\ nb.name \in { <<"C", "O", "2">>, <<"H", "C", "O">>, <<"H", "2", "C", "O">> }) =>
        ~nb.found

\* C19: '^H.O$' selects a name if and only if the name is an H, one
\* character, and an O.
C19_HDotO ==
    (nb.pc = "found" /\ nb.regex = <<"^", "H", ".", "O", "$">>) =>
        (nb.found <=> (Len(nb.name) = 3 /\ nb.name[1] = "H" /\ nb.name[3] = "O"))

\* the search has selected 'HDO'
C19_Witness ==
    /\ nb.pc = "found"
    /\ nb.regex = <<"^", "H", ".", "O", "$">>
    /\ nb.name = <<"H", "D", "O">>
    /\ nb.found

\* the names of the species an identifier selects
SelectedNames(mol_tag) ==
    { jplspec_species(mol_tag)[n].NAME : n \in 1..Len(jplspec_species(mol_tag)) }

\* C13: mol_tag = 'CO' names more than one species (CO and CO2 among them):
\* from_jplspec fails with an ambiguity error and mol_data stays without
\* columns; mol_tag = '^CO$' names exactly CO and from_jplspec builds the
\* object.
C13_AmbiguousRegexRejected ==
    nb.pc \notin {"cell6", "Phys.from_jplspec"} =>
        /\ nb.mol_tag = [regex |-> <<"C", "O">>] =>
              /\ { <<"C", "O">>, <<"C", "O", "2">> } \subseteq SelectedNames(nb.mol_tag)
              /\ nb.pc = "raised"
              /\ nb.exc.call = "Phys.from_jplspec"
              /\ nb.exc.type = "ambiguity"
              /\ nb.mol_data = NoColumns
        /\ nb.mol_tag = [regex |-> <<"^", "C", "O", "$">>] =>
              /\ SelectedNames(nb.mol_tag) = { <<"C", "O">> }
              /\ nb.exc.type # "ambiguity"
              /\ Within1GHz(to(nb.requested, "MHz").value) # {} =>
                    "t_freq" \in Columns(nb.mol_data)

\* from_jplspec has refused 'CO'
C13_Witness ==
    /\ nb.pc = "raised"
    /\ nb.mol_tag = [regex |-> <<"C", "O">>]
    /\ nb.exc.type = "ambiguity"
    /\ nb.requested = GHz(230, 5380000)

(***************************************************************************)
(* Columns of mol_data: properties.                                         *)
(***************************************************************************)
\* the assignments mol_data[name] = value of the loop: statement, column, value
Assignments ==
    { <<"mol_data['beta']", "beta", "beta">>,
      <<"mol_data['cdensity'] first guess", "cdensity", "cdensity_bockelee">>,
      <<"mol_data['cdensity']", "cdensity", "cdensity">>,
      <<"mol_data['total_number']", "total_number", "tnum">> }

NotebookArgs(k) ==
    /\ k.min_frequency = GHz(100, 0)
    /\ k.max_frequency = GHz(1000, 0)
    /\ k.max_lines = <<7>>

Past(cells) == nb.pc \notin cells

C15_ConvertIsFirstFrequency ==
    Past({"cell2", "cell3", "cell4", "cell7"}) =>
        /\ Len(nb.convert) = 1
        /\ nb.convert[1] = to(MHz(nb.response[1].FREQ[1], nb.response[1].FREQ[2]), "GHz").value

\* C17: with max_lines = n the table has at most n rows (7 rows for the
\* notebook's query); without max_lines all the lines found are returned,
\* and the '^H.O$' query, which has none, returns more than 7.
C17_MaxLinesCaps ==
    /\ (Past({"cell2", "cell3"}) /\ nb.max_lines # <<>>) =>
          /\ Len(nb.out2) <= nb.max_lines[1]
          /\ Len(nb.out3) <= nb.max_lines[1]
    /\ (Past({"cell2", "cell3"}) /\ NotebookArgs(nb)) =>
          /\ Len(nb.out2) = 7
          /\ Len(nb.out3) = 7
    /\ (Past({"cell2", "cell3"}) /\ nb.max_lines = <<>>) =>
          /\ nb.out2 = query_lines(nb.min_frequency, nb.max_frequency, CO_lines)
          /\ Len(nb.out3) = Len(nb.out2)
                + Len(query_lines(nb.min_frequency, nb.max_frequency, nb.others[29004]))
    /\ Past({"cell2", "cell3", "cell4"}) => Len(nb.response1) > 7

\* the regex query has found 8 lines or more and 7 are saved
C17_Witness ==
    /\ nb.pc = "cell4"
    /\ NotebookArgs(nb)
    /\ Len(query_lines(nb.min_frequency, nb.max_frequency, nb.others[29004])) > 0
    /\ Len(nb.out3) = 7

InRange(lines, min_frequency, max_frequency) ==
    \A n \in 1..Len(lines) :
        /\ LessEq(to(min_frequency, "MHz").value, lines[n].FREQ)
        /\ LessEq(lines[n].FREQ, to(max_frequency, "MHz").value)

\* C18: every row a query returns has min_frequency <= FREQ <= max_frequency
\* of that query.
C18_LinesInsideRange ==
    /\ InRange(nb.out2, nb.min_frequency, nb.max_frequency)
    /\ InRange(nb.out3, nb.min_frequency, nb.max_frequency)
    /\ InRange(nb.response1, GHz(100, 0), GHz(500, 0))

\* the three queries have run on a catalog with lines below and above the range
C18_Witness ==
    /\ nb.pc = "cell7"
    /\ nb.max_frequency = GHz(500, 0)
    /\ nb.max_lines = <<>>
    /\ Len(nb.out2) = 4
    /\ Len(nb.others[29004]) = 2
    /\ Len(nb.out3) = 5
    /\ Len(nb.others[19002]) = 2
    /\ Len(nb.response1) = 11

(***************************************************************************)
(* The Orbit notebook: properties.                                          *)
(***************************************************************************)
\* C20: from_horizons with a list of targets and no epoch returns one row
\* per target, in the order of the list, every row at the current epoch;
\* for ['3552', '259P'] two rows, 3552 Don Quixote then 259P/Garradd, with
\* the same datetime_jd.
C20_OneRowPerTargetInOrder ==
    (nb.pc \notin {"orb", "raised"} \/ (nb.pc = "raised" /\ nb.orb # <<>>)) =>
        /\ Len(nb.orb) = Len(nb.targetids)
        /\ \A n \in 1..Len(nb.orb) :
              /\ nb.orb[n].targetname = Horizons_targetname(nb.targetids[n])
              /\ nb.orb[n].datetime_jd = nb.now
        /\ \A n, m \in 1..Len(nb.orb) : nb.orb[n].datetime_jd = nb.orb[m].datetime_jd
        /\ nb.targetids = <<"3552", "259P">> =>
              /\ Len(nb.orb) = 2
              /\ nb.orb[1].targetname = "3552 Don Quixote (1983 SA)"
              /\ nb.orb[2].targetname = "259P/Garradd"

\* the recorded run of cell 1
C20_Witness ==
    /\ nb.pc = "orbit"
    /\ nb.targetids = <<"3552", "259P">>
    /\ nb.now = <<2458377, 5242>>
    /\ Len(nb.orb) = 2
    /\ nb.orb[1].datetime_jd = nb.orb[2].datetime_jd

\* 100 years, in days
HundredYears == 36525

\* C16: the epoch given to oo_propagate lies 100 years after the epoch of
\* the orbit from_horizons('Ceres') has returned.
C16_PropagatesHundredYearsAhead ==
    nb.pc = "end" =>
        nb.new_orbit[1].datetime_jd = Plus(nb.orbit[1].datetime_jd, <<HundredYears, 0>>)

(***************************************************************************)
(* The production-rate loop: the row an iteration reads.                    *)
(***************************************************************************)
\* the flux iteration i of namespace k has to use
FluxOfRow(k) == Lit("K km / s", k.co[k.i + 1].T_B)

\* C21: in iteration i, for every i in 0..4, Ephem.from_horizons is queried
\* at the time co['Time'][i], and the flux handed to cdensity_Bockelee and
\* to from_pyradex is co['T_B'][i] of the same row.
C21_EpochAndFluxOfSameRow ==
    /\ [](nb.pc \in { LoopBody[n] : n \in 1..Len(LoopBody) } => nb.i \in 0..4)
    /\ [][(nb.pc = "Ephem.from_horizons" /\ nb'.pc = "beta_factor") =>
            nb'.ephemobj = App("Ephem.from_horizons",
                               << target, App("jd", << Lit("Time", nb.co[nb.i + 1].Time) >>) >>)]_vars
    /\ [][(nb.pc = "LTE.cdensity_Bockelee" /\ nb'.pc # "raised") =>
            /\ nb'.cdensity_bockelee.op = "LTE.cdensity_Bockelee"
            /\ nb'.cdensity_bockelee.args[1] = FluxOfRow(nb)]_vars
    /\ [][(nb.pc = "NonLTE.from_pyradex" /\ nb'.pc # "raised") =>
            /\ nb'.cdensity.op = "NonLTE.from_pyradex"
            /\ nb'.cdensity.args[1] = FluxOfRow(nb)]_vars

\* the last iteration, on a table other than the recorded one, after
\* from_pyradex has returned
C21_Witness ==
    /\ nb.pc = "mol_data['cdensity']"
    /\ nb.i = 4
    /\ nb.co # RecordedCO
    /\ nb.ephemobj.args[2].args[1].v = nb.co[5].Time
    /\ nb.cdensity.args[1].v = nb.co[5].T_B
    /\ nb.cdensity_bockelee.args[1].v = nb.co[5].T_B

(***************************************************************************)
(* The species table and the fit: properties.                               *)
(***************************************************************************)
H2O == <<"H", "2", "O">>

=============================================================================
